---- MODULE Spec2Model ----
(***************************************************************************)
(* Model of universal-pdf-converter: the express server (upload, convert, *)
(* delete endpoints and the conversion helpers) and the browser client    *)
(* (uploadedFiles list, handleFiles, removeFile, convertToPDF, resetApp). *)
(* Line numbers refer to src/unnamed/part_000.                            *)
(***************************************************************************)
EXTENDS Integers, Sequences, FiniteSets, TLC

\* ------------------------------------------------------------------------
\* Bounds of the server model
\* ------------------------------------------------------------------------
\* Date.now() takes the values 0..MaxClock
MaxClock == 1
\* a convert request body carries at most MaxBatch files
MaxBatch == 2
\* in one run the library calls of at most MaxFaults steps fail for reasons
\* outside the model (a corrupt input, sharp failing, a full disk)
MaxFaults == 1

Times == 0..MaxClock
\* two convert requests are in flight at most
Req == {1, 2}

\* ------------------------------------------------------------------------
\* Stored files of the run.  "k.pdf" stands for a PDF whose original name
\* is written in Hangul (the sanitiser of line 435 keeps Hangul), so the
\* name cannot be encoded in WinAnsi.
\* ------------------------------------------------------------------------
Names == {"a.txt", "c.png", "k.pdf"}

\* path.extname(name).toLowerCase(), lines 582 and 1157
ExtName(name) ==
  CASE name = "a.txt" -> ".txt"
    [] name = "c.png" -> ".png"
    [] name = "k.pdf" -> ".pdf"

\* byte size of the uploaded file (file.size, line 1094)
SizeOf(name) ==
  CASE name = "a.txt" -> 11
    [] name = "c.png" -> 204800
    [] name = "k.pdf" -> 819200

\* number of pages of a PDF input (existingPdf.getPageIndices(), line 1163)
PdfPages(name) == IF name = "k.pdf" THEN 3 ELSE 0

\* whether page.drawText can encode the name with the default font
\* (lines 1204-1208 draw originalname with the standard font)
WinAnsi(name) == name # "k.pdf"

\* path.join(a, b)
PathJoin(a, b) == a \o "/" \o b

\* lines 417-418
uploadsDir == "/tmp/uploads"
outputDir == "/tmp/output"

\* the directories the server module can be installed in (__dirname)
DirNames == {"/tmp", "/var/task"}

\* one entry of the upload response, lines 1090-1097.  A name of Names is
\* the stored filename (`${timestamp}-${sanitizedName}`, lines 433-437) of
\* one uploaded file; originalname and size are those of that file.
FileInfo(name) ==
  [filename |-> name, originalname |-> name, size |-> SizeOf(name)]

FileInfos == {FileInfo(name) : name \in Names}

\* the batches a convert request body can carry
RECURSIVE SeqsUpTo(_, _)
SeqsUpTo(S, n) ==
  IF n = 0 THEN {<<>>}
  ELSE LET shorter == SeqsUpTo(S, n - 1)
       IN shorter \cup {Append(s, x) : s \in {t \in shorter : Len(t) = n - 1}, x \in S}

\* ------------------------------------------------------------------------
\* CompressionPlanner, lines 1048-1081.  The ratio is the rational
\* num/den; an undefined or zero targetSizeKB is 0; currentSizeKB is
\* totalBytes/1024 (line 1144), so targetSizeKB/currentSizeKB is
\* (targetSizeKB*1024)/totalBytes.
\* ------------------------------------------------------------------------
Tiers == {"low", "medium", "high", "custom"}

Min(a, b) == IF a < b THEN a ELSE b
Max(a, b) == IF a > b THEN a ELSE b

\* lines 1067-1071: the quality of the ratio num/den (den > 0)
QualityOf(num, den) ==
  IF 10 * num > 9 * den THEN 95
  ELSE IF 10 * num > 7 * den THEN 85
  ELSE IF 10 * num > 5 * den THEN 70
  ELSE IF 10 * num > 3 * den THEN 55
  ELSE 40

\* a tier table with the qualities of low and high exchanged
FixedTier_Exchanged(compressionType) ==
  CASE compressionType = "low" -> [quality |-> 60, num |-> 9, den |-> 10]
    [] compressionType = "medium" -> [quality |-> 80, num |-> 7, den |-> 10]
    [] compressionType = "high" -> [quality |-> 95, num |-> 5, den |-> 10]
    [] OTHER -> [quality |-> 80, num |-> 7, den |-> 10]

\* lines 1052-1064 and 1075-1077: the fixed tiers and the default
FixedTier(compressionType) ==
  CASE compressionType = "low" -> [quality |-> 95, num |-> 9, den |-> 10]
    [] compressionType = "medium" -> [quality |-> 80, num |-> 7, den |-> 10]
    [] compressionType = "high" -> [quality |-> 60, num |-> 5, den |-> 10]
    [] OTHER -> [quality |-> 80, num |-> 7, den |-> 10]

calculateCompressionSettings(compressionType, targetSizeKB, totalBytes) ==
  LET num == targetSizeKB * 1024
      den == totalBytes
      raw ==
        IF compressionType = "custom"
        THEN IF targetSizeKB # 0 /\ totalBytes # 0
             THEN [quality |-> QualityOf(num, den), num |-> num, den |-> den]
             ELSE [quality |-> 80, num |-> 1, den |-> 1]
        ELSE FixedTier(compressionType)
  IN [raw EXCEPT !.quality = Max(10, Min(100, raw.quality))]

\* ------------------------------------------------------------------------
\* State
\* ------------------------------------------------------------------------
VARIABLES
  dirname,        \* __dirname of the server module
  now,            \* Date.now()
  disk,           \* stored upload files: set of <<directory, filename>>
  tempDirExists,  \* whether path.join(__dirname, 'temp') exists
  tempFiles,      \* files of the temp directory: name -> content
  outputs,        \* files of outputDir: timestamp of the name -> content
  req,            \* the convert requests in flight
  delResp,        \* the last response of DELETE /delete/:filename
  faults,         \* number of steps whose library calls failed so far
  uploadedFiles,  \* client: the uploadedFiles array (line 1)
  shown,          \* client: the items of fileList, as displayFiles left them
  convertDisabled,\* client: convertBtn.disabled
  uploading,      \* client: the batches of the upload requests in flight
  removing,       \* client: index and file of the removeFile calls in flight
  sent,           \* client: requestData.files of the last convert request
  alert,          \* client: the last alert shown
  nextId,         \* client: the next stored filename the server hands out
  listVisible,    \* client: fileListSection.style.display = 'block'
  calls,          \* client: number of handleFiles calls so far
  clicks,         \* client: number of remove buttons clicked so far
  layout,         \* one run of the text layout of createTextImage
  planned,        \* one call of the compression planner, with the request body
  decoded,        \* one call of detectAndConvertEncoding
  reported,       \* the size report of one successful conversion
  markup          \* the lines one call of createTextImage writes into its SVG

svars == <<dirname, now, disk, tempDirExists, tempFiles, outputs, req, delResp, faults>>
cvars == <<uploadedFiles, shown, convertDisabled, uploading, removing, sent, alert, nextId,
           listVisible, calls, clicks>>
pvars == <<layout, planned, decoded, reported, markup>>
vars == <<svars, cvars, pvars>>

\* names of the temp directory: temp-<ts>.jpg (line 1167) and the
\* intermediate temp-<ts>.png (line 930)
TempNames == Times \X {"jpg", "png"}

\* the content of a temp file is the request that wrote it; 0: no file
NoFile == [by |-> 0]
NoOutput == [by |-> 0, pages |-> <<>>]
NoResp == [status |-> 0, success |-> FALSE, filename |-> -1]
NoDelResp == [status |-> 0, success |-> FALSE]

\* the path the convert and delete endpoints use, lines 1149, 1230, 1257
appUploadPath(filename) == <<PathJoin(dirname, "uploads"), filename>>

\* the path multer.diskStorage writes to, lines 429-432
uploadPath(filename) == <<uploadsDir, filename>>

\* no layout run, planner call or decode call yet
NoLayout == [pc |-> "idle", words |-> <<>>, wi |-> 1, lines |-> <<>>,
             currentLine |-> [len |-> 0, chars |-> 0], displayLines |-> <<>>]
NoPlan == [called |-> FALSE]
NoDecoded == [called |-> FALSE]
NoReport == [called |-> FALSE]
NoMarkup == [called |-> FALSE]

IdleReq ==
  [pc |-> "idle", files |-> <<>>, compression |-> "medium", targetSizeKB |-> 0,
   quality |-> 0, total |-> 0, i |-> 1, j |-> 1, pages |-> <<>>,
   tempImagePath |-> -1, rendered |-> "none", buf |-> NoFile, outName |-> -1, skipped |-> {}, resp |-> NoResp]

Init ==
  /\ dirname \in DirNames
  /\ now = 0
  /\ disk = {}
  /\ tempDirExists = FALSE
  /\ tempFiles = [n \in TempNames |-> NoFile]
  /\ outputs = [t \in Times |-> NoOutput]
  /\ req = [r \in Req |-> IdleReq]
  /\ delResp = NoDelResp
  /\ faults = 0
  /\ uploadedFiles = <<>>
  /\ shown = <<>>
  /\ convertDisabled \in BOOLEAN
  /\ uploading = <<>>
  /\ removing = <<>>
  /\ sent = <<>>
  /\ alert = "none"
  /\ nextId = 1
  /\ listVisible = FALSE
  /\ calls = 0
  /\ clicks = 0
  /\ layout = NoLayout
  /\ planned = NoPlan
  /\ decoded = NoDecoded
  /\ reported = NoReport
  /\ markup = NoMarkup

\* the synchronous stretches of the convert handler: no other handler runs
\* while a request is at one of them
SyncPc == {"loop", "cleanup"}

NoOtherSync(r) == \A q \in Req \ {r} : req[q].pc \notin SyncPc
NoSync == \A q \in Req : req[q].pc \notin SyncPc

\* ------------------------------------------------------------------------
\* Clock, upload and delete
\* ------------------------------------------------------------------------
Tick ==
  /\ now < MaxClock
  /\ now' = now + 1
  /\ UNCHANGED <<dirname, disk, tempDirExists, tempFiles, outputs, req, delResp, faults, cvars, pvars>>

\* app.post('/upload'), lines 1084-1107, for a batch that is not empty:
\* multer has stored the files under uploadsDir before the handler runs and
\* the handler answers with their FileInfo
Upload(batch) ==
  /\ NoSync
  /\ batch # {}
  /\ disk' = disk \cup {uploadPath(name) : name \in batch}
  /\ UNCHANGED <<dirname, now, tempDirExists, tempFiles, outputs, req, delResp, faults, cvars, pvars>>

\* app.delete('/delete/:filename'), lines 1254-1268
Delete(filename) ==
  /\ NoSync
  /\ IF appUploadPath(filename) \in disk
     THEN /\ disk' = disk \ {appUploadPath(filename)}
          /\ delResp' = [status |-> 200, success |-> TRUE]
     ELSE /\ disk' = disk
          /\ delResp' = [status |-> 404, success |-> FALSE]
  /\ UNCHANGED <<dirname, now, tempDirExists, tempFiles, outputs, req, faults, cvars, pvars>>

\* ------------------------------------------------------------------------
\* app.post('/convert'), lines 1122-1251
\* ------------------------------------------------------------------------
RECURSIVE SumSizes(_)
SumSizes(files) ==
  IF files = <<>> THEN 0 ELSE Head(files).size + SumSizes(Tail(files))

\* the outer catch, lines 1247-1250
OuterCatch(q) ==
  [q EXCEPT !.pc = "done",
            !.tempImagePath = -1,
            !.resp = [status |-> 500, success |-> FALSE, filename |-> -1]]

\* a document whose addPage puts the new page first
AddPage_First(pages, page) == <<page>> \o pages

\* pdfDoc.addPage of one page: the page is appended
AddPage(pages, page) == Append(pages, page)

\* the per-file catch, lines 1199-1214: a banner page with the original
\* name and the message; drawText throws on a name the standard font
\* cannot encode, and nothing catches that below the outer catch
FileError(q) ==
  LET f == q.files[q.i]
  IN IF WinAnsi(f.originalname)
     THEN [q EXCEPT !.pages = AddPage(q.pages, [src |-> q.i, kind |-> "banner", q |-> 0, by |-> 0, no |-> 0]),
                    !.i = q.i + 1,
                    !.tempImagePath = -1,
                    !.pc = "loop"]
     ELSE OuterCatch([q EXCEPT !.pages = AddPage(q.pages, [src |-> q.i, kind |-> "blank", q |-> 0, by |-> 0, no |-> 0])])

\* lines 1122-1131: the body is parsed, an empty batch is answered 400,
\* otherwise PDFDocument.create() is awaited
ConvertBegin(r, files, compression, targetSizeKB) ==
  /\ NoOtherSync(r)
  /\ req[r].pc = "idle"
  /\ IF Len(files) = 0
     THEN req' = [req EXCEPT ![r].pc = "done",
                             ![r].resp = [status |-> 400, success |-> FALSE, filename |-> -1]]
     ELSE req' = [req EXCEPT ![r].pc = "create",
                             ![r].files = files,
                             ![r].compression = compression,
                             ![r].targetSizeKB = targetSizeKB]
  /\ UNCHANGED <<dirname, now, disk, tempDirExists, tempFiles, outputs, delResp, faults, cvars, pvars>>

\* lines 1131-1145: the document exists, the temp directory is ensured, the
\* total size and the compression settings are computed
ConvertCreated(r) ==
  /\ NoOtherSync(r)
  /\ req[r].pc = "create"
  /\ tempDirExists' = TRUE
  /\ LET total == SumSizes(req[r].files)
     IN req' = [req EXCEPT ![r].pc = "loop",
                           ![r].total = total,
                           ![r].quality =
                             calculateCompressionSettings(req[r].compression, req[r].targetSizeKB, total).quality,
                           ![r].pages = <<>>,
                           ![r].i = 1]
  /\ UNCHANGED <<dirname, now, disk, tempFiles, outputs, delResp, faults, cvars, pvars>>

\* a loop that treats a missing file as a failed one
SkipMissing_AsError(q) == FileError(q)

\* lines 1151-1154: a missing file is logged and skipped
SkipMissing(q) == [q EXCEPT !.skipped = q.skipped \cup {q.i}, !.i = q.i + 1]

\* lines 1148-1168, the head of the per-file loop up to its first await: a
\* missing file is skipped, a PDF is read and PDFDocument.load awaited, any
\* other file gets a temp image path and convertToImage is awaited; after
\* the last file pdfDoc.save() is awaited (line 1218)
LoopHead(r) ==
  /\ NoOtherSync(r)
  /\ req[r].pc = "loop"
  /\ LET q == req[r]
     IN IF q.i > Len(q.files)
        THEN req' = [req EXCEPT ![r].pc = "save"]
        ELSE LET f == q.files[q.i]
             IN IF appUploadPath(f.filename) \notin disk
                THEN req' = [req EXCEPT ![r] = SkipMissing(q)]
                ELSE IF ExtName(f.filename) = ".pdf"
                THEN req' = [req EXCEPT ![r].pc = "load"]
                ELSE req' = [req EXCEPT ![r].pc = "render",
                                        ![r].tempImagePath = now]
  /\ UNCHANGED <<dirname, now, disk, tempDirExists, tempFiles, outputs, delResp, faults, cvars, pvars>>

\* a copy that takes the first page of the source only
CopyPages_FirstOnly(pages, srcIdx, n) ==
  IF n = 0 THEN pages
  ELSE AddPage(pages, [src |-> srcIdx, kind |-> "pdf", q |-> 0, by |-> 0, no |-> 1])

\* the pages pdfDoc.copyPages / addPage add for a loaded PDF, lines
\* 1163-1164: page no of the source for no = 1..n, in this order
RECURSIVE CopyPages(_, _, _)
CopyPages(pages, srcIdx, n) ==
  IF n = 0 THEN pages
  ELSE AddPage(CopyPages(pages, srcIdx, n - 1), [src |-> srcIdx, kind |-> "pdf", q |-> 0, by |-> 0, no |-> n])

\* a step whose library call fails for a reason outside the model uses up
\* one unit of the fault budget
Charge(failed) ==
  /\ failed => faults < MaxFaults
  /\ faults' = faults + (IF failed THEN 1 ELSE 0)

\* lines 1161-1164: PDFDocument.load and copyPages return or throw
LoadDone(r) ==
  /\ NoOtherSync(r)
  /\ req[r].pc = "load"
  /\ LET q == req[r]
         f == q.files[q.i]
     IN \E ok \in BOOLEAN :
          /\ Charge(~ok)
          /\ req' = [req EXCEPT ![r] =
                       IF ok
                       THEN [q EXCEPT !.pages = CopyPages(q.pages, q.i, PdfPages(f.filename)),
                                      !.i = q.i + 1,
                                      !.pc = "loop"]
                       ELSE FileError(q)]
  /\ UNCHANGED <<dirname, now, disk, tempDirExists, tempFiles, outputs, delResp, cvars, pvars>>

\* ------------------------------------------------------------------------
\* convertToImage and the page renderers.  Each operator gives the set of
\* results a call can end with: res is the returned value ("true", "false")
\* or "throw", jpg the kind of raster left at outputPath ("none": nothing
\* written), png whether the intermediate PNG is left behind, fault whether
\* the result needs a library call to fail for a reason outside the model.
\* canWrite: the temp directory exists when sharp writes.
\* ------------------------------------------------------------------------
Outcome(res, jpg, png, fault) == [res |-> res, jpg |-> jpg, png |-> png, fault |-> fault]

\* createErrorImage, lines 997-1045: the error SVG, else a blank canvas
\* written outside any try
createErrorImage(canWrite, fault) ==
  IF canWrite
  THEN {Outcome("true", "error", FALSE, fault), Outcome("true", "minimal", FALSE, TRUE),
        Outcome("throw", "none", FALSE, TRUE)}
  ELSE {Outcome("throw", "none", FALSE, fault)}

\* createSimpleTextImage, lines 953-994: returns false when it fails
createSimpleTextImage(canWrite, pngLeft) ==
  IF canWrite
  THEN {Outcome("true", "simple", pngLeft, TRUE), Outcome("false", "none", pngLeft, TRUE)}
  ELSE {Outcome("false", "none", pngLeft, FALSE)}

\* createTextImage, lines 857-950: SVG -> PNG -> JPG, the PNG unlinked
\* (errors ignored, lines 938-942); on any failure createSimpleTextImage
createTextImage(canWrite) ==
  IF canWrite
  THEN {Outcome("true", "content", FALSE, FALSE), Outcome("true", "content", TRUE, TRUE)}
       \cup createSimpleTextImage(canWrite, FALSE)
       \cup createSimpleTextImage(canWrite, TRUE)
  ELSE createSimpleTextImage(canWrite, FALSE)

ImageExts == {".jpg", ".jpeg", ".png", ".gif", ".bmp", ".tiff", ".tif", ".webp"}

\* convertToImage, lines 581-854: an image is re-encoded by sharp, a failure
\* goes to the outer catch and createErrorImage; a text file is read and
\* rendered by createTextImage, a failed read goes to createErrorImage
convertToImage(ext, canWrite, srcExists) ==
  IF ext \in ImageExts
  THEN IF canWrite /\ srcExists
       THEN {Outcome("true", "content", FALSE, FALSE)} \cup createErrorImage(canWrite, TRUE)
       ELSE createErrorImage(canWrite, FALSE)
  ELSE createTextImage(canWrite) \cup createErrorImage(canWrite, TRUE)

\* the files an outcome leaves in the temp directory
WriteTemp(files, ts, r, o) ==
  [n \in TempNames |->
     IF n = <<ts, "jpg">> /\ o.jpg # "none" THEN [by |-> r]
     ELSE IF n = <<ts, "png">> /\ o.png THEN [by |-> r]
     ELSE files[n]]

\* lines 1168-1170: convertToImage returns or throws; a true result with
\* the temp image present goes on to sharp(...).toBuffer()
RenderDone(r) ==
  /\ NoOtherSync(r)
  /\ req[r].pc = "render"
  /\ LET q == req[r]
         f == q.files[q.i]
     IN \E o \in convertToImage(ExtName(f.filename), tempDirExists, appUploadPath(f.filename) \in disk) :
          LET written == IF tempDirExists THEN WriteTemp(tempFiles, q.tempImagePath, r, o) ELSE tempFiles
          IN /\ Charge(o.fault)
             /\ tempFiles' = written
             /\ req' = [req EXCEPT ![r] =
                          IF o.res = "throw" THEN FileError(q)
                          ELSE IF o.res = "true" /\ written[<<q.tempImagePath, "jpg">>] # NoFile
                          THEN [q EXCEPT !.rendered = o.jpg, !.pc = "reencode"]
                          ELSE [q EXCEPT !.i = q.i + 1, !.tempImagePath = -1, !.pc = "loop"]]
  /\ UNCHANGED <<dirname, now, disk, tempDirExists, outputs, delResp, cvars, pvars>>

\* lines 1172-1174: sharp(tempImagePath).jpeg({quality}).toBuffer() reads the
\* temp image or throws
ReencodeDone(r) ==
  /\ NoOtherSync(r)
  /\ req[r].pc = "reencode"
  /\ LET q == req[r]
         file == tempFiles[<<q.tempImagePath, "jpg">>]
     IN \E ok \in BOOLEAN :
          /\ Charge(file # NoFile /\ ~ok)
          /\ file = NoFile => ~ok
          /\ req' = [req EXCEPT ![r] =
                       IF ok
                       THEN [q EXCEPT !.buf = file, !.pc = "embed"]
                       ELSE FileError([q EXCEPT !.rendered = "none"])]
  /\ UNCHANGED <<dirname, now, disk, tempDirExists, tempFiles, outputs, delResp, cvars, pvars>>

\* lines 1177-1196: embedJpg returns or throws; then the page is added, the
\* image drawn and the temp image unlinked (unlinkSync throws when the file
\* is gone)
EmbedDone(r) ==
  /\ NoOtherSync(r)
  /\ req[r].pc = "embed"
  /\ LET q == req[r]
         jpg == <<q.tempImagePath, "jpg">>
         page == [src |-> q.i, kind |-> q.rendered, q |-> q.quality, by |-> q.buf.by, no |-> 0]
         blank == [src |-> q.i, kind |-> "blank", q |-> 0, by |-> 0, no |-> 0]
         clear == [q EXCEPT !.buf = NoFile, !.rendered = "none"]
     IN \E fault \in {"none", "embedJpg", "drawImage"} :
          /\ Charge(fault # "none")
          /\ CASE fault = "embedJpg" ->
                    /\ req' = [req EXCEPT ![r] = FileError(clear)]
                    /\ tempFiles' = tempFiles
               [] fault = "drawImage" ->
                    /\ req' = [req EXCEPT ![r] =
                                 FileError([clear EXCEPT !.pages = AddPage(q.pages, blank)])]
                    /\ tempFiles' = tempFiles
               [] fault = "none" ->
                    IF tempFiles[jpg] = NoFile
                    THEN /\ req' = [req EXCEPT ![r] =
                                      FileError([clear EXCEPT !.pages = AddPage(q.pages, page)])]
                         /\ tempFiles' = tempFiles
                    ELSE /\ req' = [req EXCEPT ![r] =
                                      [clear EXCEPT !.pages = AddPage(q.pages, page),
                                                    !.i = q.i + 1,
                                                    !.tempImagePath = -1,
                                                    !.pc = "loop"]]
                         /\ tempFiles' = [tempFiles EXCEPT ![jpg] = NoFile]
  /\ UNCHANGED <<dirname, now, disk, tempDirExists, outputs, delResp, cvars, pvars>>

\* lines 1218-1220: pdfDoc.save() returns or throws; the output name is
\* converted-<Date.now()>.pdf; fs.writeFile is awaited
SaveDone(r) ==
  /\ NoOtherSync(r)
  /\ req[r].pc = "save"
  /\ \E ok \in BOOLEAN :
       /\ Charge(~ok)
       /\ req' = [req EXCEPT ![r] =
                    IF ok THEN [req[r] EXCEPT !.outName = now, !.pc = "write"]
                    ELSE OuterCatch(req[r])]
  /\ UNCHANGED <<dirname, now, disk, tempDirExists, tempFiles, outputs, delResp, cvars, pvars>>

\* lines 1222-1226: fs.writeFile returns or throws; fs.statSync of the
\* written file returns or throws; then the clean-up loop starts
WriteDone(r) ==
  /\ NoOtherSync(r)
  /\ req[r].pc = "write"
  /\ LET q == req[r]
     IN \E fault \in {"none", "writeFile", "statSync"} :
          /\ Charge(fault # "none")
          /\ outputs' = IF fault = "writeFile" THEN outputs
                        ELSE [outputs EXCEPT ![q.outName] = [by |-> r, pages |-> q.pages]]
          /\ req' = [req EXCEPT ![r] =
                       IF fault = "none" THEN [q EXCEPT !.j = 1, !.pc = "cleanup"]
                       ELSE OuterCatch(q)]
  /\ UNCHANGED <<dirname, now, disk, tempDirExists, tempFiles, delResp, cvars, pvars>>

\* lines 1229-1245: the clean-up loop up to its next await (fs.unlink of a
\* source file that exists); after the last file the temp directory is
\* removed (fs.removeSync returns or throws) and the success response sent
Cleanup(r) ==
  /\ NoOtherSync(r)
  /\ req[r].pc = "cleanup"
  /\ LET q == req[r]
     IN IF q.j > Len(q.files)
        THEN \E ok \in BOOLEAN :
               /\ Charge(~ok)
               /\ IF ok
                  THEN /\ tempDirExists' = FALSE
                       /\ tempFiles' = [n \in TempNames |-> NoFile]
                       /\ req' = [req EXCEPT ![r].pc = "done",
                                             ![r].resp = [status |-> 200, success |-> TRUE, filename |-> q.outName]]
                  ELSE /\ req' = [req EXCEPT ![r] = OuterCatch(q)]
                       /\ UNCHANGED <<tempDirExists, tempFiles>>
        ELSE /\ req' = IF appUploadPath(q.files[q.j].filename) \in disk
                       THEN [req EXCEPT ![r].pc = "unlink"]
                       ELSE [req EXCEPT ![r].j = q.j + 1]
             /\ UNCHANGED <<tempDirExists, tempFiles, faults>>
  /\ UNCHANGED <<dirname, now, disk, outputs, delResp, cvars, pvars>>

\* line 1232: fs.unlink removes the source file, or throws when the file is
\* gone by the time it runs
UnlinkDone(r) ==
  /\ NoOtherSync(r)
  /\ req[r].pc = "unlink"
  /\ LET q == req[r]
         path == appUploadPath(q.files[q.j].filename)
     IN IF path \in disk
        THEN /\ disk' = disk \ {path}
             /\ req' = [req EXCEPT ![r].j = q.j + 1, ![r].pc = "cleanup"]
        ELSE /\ disk' = disk
             /\ req' = [req EXCEPT ![r] = OuterCatch(q)]
  /\ UNCHANGED <<dirname, now, tempDirExists, tempFiles, outputs, delResp, faults, cvars, pvars>>

\* the steps of a convert request after its body is accepted
ConvertSteps(r) ==
  \/ ConvertCreated(r)
  \/ LoopHead(r)
  \/ LoadDone(r)
  \/ RenderDone(r)
  \/ ReencodeDone(r)
  \/ EmbedDone(r)
  \/ SaveDone(r)
  \/ WriteDone(r)
  \/ Cleanup(r)
  \/ UnlinkDone(r)

\* the batches over a set of stored files
Batches(names, n) == SeqsUpTo({FileInfo(name) : name \in names}, n)

\* ------------------------------------------------------------------------
\* Spec: the server with one convert request, uploads and deletes, all
\* within one millisecond of the clock
\* ------------------------------------------------------------------------
\* the stored files of Spec
SeqNames == {"a.txt", "k.pdf"}

\* the compression selections of a convert request body in Spec:
\* (compression, targetSizeKB)
Plans == {<<"medium", 0>>, <<"custom", 100>>}

Next ==
  \/ \E name \in SeqNames : Upload({name})
  \/ \E filename \in SeqNames : Delete(filename)
  \/ \E files \in Batches(SeqNames, MaxBatch), plan \in Plans :
       ConvertBegin(1, files, plan[1], plan[2])
  \/ ConvertSteps(1)

Spec == Init /\ [][Next]_vars

\* ------------------------------------------------------------------------
\* ConcSpec: two convert requests in flight, uploads, and the clock
\* ------------------------------------------------------------------------
\* the stored files of ConcSpec
ConcNames == Names

\* a convert request body of ConcSpec carries at most MaxConcBatch files
MaxConcBatch == 1

ConcNext ==
  \/ Tick
  \/ \E name \in ConcNames : Upload({name})
  \/ \E r \in Req :
       \/ \E files \in Batches(ConcNames, MaxConcBatch) : ConvertBegin(r, files, "medium", 0)
       \/ ConvertSteps(r)

ConcSpec == Init /\ [][ConcNext]_vars

\* ------------------------------------------------------------------------
\* The browser client (lines 1-400).  A client file is the record the
\* upload response returned for it; its stored filename is a number.  The
\* server's answers to the client's requests are the outcomes of the
\* fetches: any of them can succeed, answer with an error or reject.
\* ------------------------------------------------------------------------
\* line 66: files.length > 20
MaxFiles == 20
\* line 75: file.size > 50 * 1024 * 1024
MaxFileSize == 50 * 1024 * 1024

\* handleFiles calls, and clicks on remove buttons, that are explored
MaxCalls == 2
MaxClicks == 2

\* the batches the user selects: n files of 1 KiB, but the last one of
\* size last
BatchSizes == {1, MaxFiles, MaxFiles + 1}
LastSizes == {1024, MaxFileSize, MaxFileSize + 1}
Selection(n, last) == [k \in 1..n |-> IF k = n THEN last ELSE 1024]

\* lines 112-185: displayFiles rebuilds fileList from uploadedFiles, one
\* item and one remove button per index, and sets convertBtn.disabled
displayFiles(list) ==
  [shown |-> [k \in 1..Len(list) |-> list[k].filename], disabled |-> Len(list) = 0]

\* Array.prototype.splice(index, 1): index counts from 0; nothing is
\* removed when index is past the end
Splice(list, index) ==
  IF index < Len(list)
  THEN [k \in 1..(Len(list) - 1) |-> IF k <= index THEN list[k] ELSE list[k + 1]]
  ELSE list

RemoveAt(s, k) == [n \in 1..(Len(s) - 1) |-> IF n < k THEN s[n] ELSE s[n + 1]]

\* a size check that lets every file pass
Oversize_Never(files) == FALSE

\* lines 72-83: hasOversizeFile after the forEach
Oversize(files) == \E k \in 1..Len(files) : files[k] > MaxFileSize

\* lines 65-91: handleFiles up to the fetch of /upload
HandleFiles(files) ==
  /\ calls < MaxCalls
  /\ calls' = calls + 1
  /\ IF Len(files) > MaxFiles
     THEN /\ alert' = "tooMany"
          /\ UNCHANGED uploading
     ELSE IF Oversize(files)
     THEN /\ alert' = "oversize"
          /\ UNCHANGED uploading
     ELSE /\ uploading' = Append(uploading, files)
          /\ UNCHANGED alert
  /\ UNCHANGED <<uploadedFiles, shown, convertDisabled, removing, sent, nextId, listVisible, clicks,
                 svars, pvars>>

\* lines 93-108: the upload response arrives (lines 1084-1107 build it)
UploadDone(k, outcome) ==
  /\ k \in 1..Len(uploading)
  /\ uploading' = RemoveAt(uploading, k)
  /\ IF outcome = "success"
     THEN LET files == uploading[k]
              result == [j \in 1..Len(files) |-> [filename |-> nextId + j - 1, size |-> files[j]]]
              list == uploadedFiles \o result
          IN /\ uploadedFiles' = list
             /\ shown' = displayFiles(list).shown
             /\ convertDisabled' = displayFiles(list).disabled
             /\ listVisible' = TRUE
             /\ nextId' = nextId + Len(files)
             /\ UNCHANGED alert
     ELSE /\ alert' = "uploadFailed"
          /\ UNCHANGED <<uploadedFiles, shown, convertDisabled, listVisible, nextId>>
  /\ UNCHANGED <<removing, sent, calls, clicks, svars, pvars>>

\* lines 201-208: a remove button of the displayed list is clicked; the
\* index is the one the button got when the list was rendered (line 171).
\* With no file at that index, file.filename throws inside the try and the
\* catch block runs at once (lines 222-228)
RemoveClick(index) ==
  /\ listVisible
  /\ index \in 0..(Len(shown) - 1)
  /\ clicks < MaxClicks
  /\ clicks' = clicks + 1
  /\ IF index < Len(uploadedFiles)
     THEN /\ removing' = Append(removing, [index |-> index, file |-> uploadedFiles[index + 1]])
          /\ UNCHANGED <<uploadedFiles, shown, convertDisabled>>
     ELSE /\ uploadedFiles' = Splice(uploadedFiles, index)
          /\ shown' = displayFiles(uploadedFiles').shown
          /\ convertDisabled' = displayFiles(uploadedFiles').disabled
          /\ UNCHANGED removing
  /\ UNCHANGED <<uploading, sent, alert, nextId, listVisible, calls, svars, pvars>>

\* lines 210-228: the delete request settles; the fetch resolves whatever
\* the status of the answer, and rejects on a network error
RemoveDone(k, resolved) ==
  /\ k \in 1..Len(removing)
  /\ removing' = RemoveAt(removing, k)
  /\ uploadedFiles' = Splice(uploadedFiles, removing[k].index)
  /\ shown' = displayFiles(uploadedFiles').shown
  /\ convertDisabled' = displayFiles(uploadedFiles').disabled
  /\ listVisible' = IF resolved /\ Len(uploadedFiles') = 0 THEN FALSE ELSE listVisible
  /\ UNCHANGED <<uploading, sent, alert, nextId, calls, clicks, svars, pvars>>

\* lines 281-311: convertToPDF up to the fetch of /convert; a disabled
\* button takes no click
ConvertToPDF ==
  /\ ~convertDisabled
  /\ IF Len(uploadedFiles) = 0
     THEN /\ alert' = "noFiles"
          /\ UNCHANGED sent
     ELSE /\ sent' = uploadedFiles
          /\ UNCHANGED alert
  /\ UNCHANGED <<uploadedFiles, shown, convertDisabled, uploading, removing, nextId, listVisible,
                 calls, clicks, svars, pvars>>

\* lines 369-381: resetApp
ResetApp ==
  /\ uploadedFiles' = <<>>
  /\ listVisible' = FALSE
  /\ UNCHANGED <<shown, convertDisabled, uploading, removing, sent, alert, nextId, calls, clicks,
                 svars, pvars>>

\* remove buttons the user clicks: the first or the last of the list
ClickIdx(last) == IF last THEN Len(shown) - 1 ELSE 0

ClientNext ==
  \/ \E n \in BatchSizes, last \in LastSizes : HandleFiles(Selection(n, last))
  \/ \E k \in 1..MaxCalls, outcome \in {"success", "error", "throw"} : UploadDone(k, outcome)
  \/ \E last \in BOOLEAN : RemoveClick(ClickIdx(last))
  \/ \E k \in 1..MaxClicks, resolved \in BOOLEAN : RemoveDone(k, resolved)
  \/ ConvertToPDF
  \/ ResetApp

ClientSpec == Init /\ [][ClientNext]_vars

\* ------------------------------------------------------------------------
\* AdmitSpec: the client, and a convert request without files that reaches
\* the server
\* ------------------------------------------------------------------------
AdmitNext ==
  \/ \E n \in BatchSizes, last \in LastSizes : HandleFiles(Selection(n, last))
  \/ \E k \in 1..MaxCalls, outcome \in {"success", "error", "throw"} : UploadDone(k, outcome)
  \/ \E last \in BOOLEAN : RemoveClick(ClickIdx(last))
  \/ \E k \in 1..MaxClicks, resolved \in BOOLEAN : RemoveDone(k, resolved)
  \/ ConvertToPDF
  \/ ResetApp
  \/ ConvertBegin(1, <<>>, "medium", 0)

AdmitSpec == Init /\ [][AdmitNext]_vars

\* ------------------------------------------------------------------------
\* The text layout of createTextImage, lines 863-897.  A word is the
\* number of its characters; a line is its length (len) and the number of
\* its characters that come from words (chars), the rest being the blanks
\* between them.
\* ------------------------------------------------------------------------
\* line 864: text.substring(0, 3000)
MaxText == 3000
\* line 873: maxLineLength
maxLineLength == 70
\* line 896: lines.slice(0, 40)
MaxLines == 40

\* words of the texts that are laid out: up to MaxWords words of the
\* lengths WordLens, and runs of LongRun equal words
MaxWords == 3
LongRun == 41
WordLens == {0, 1, 69, 70, 71, 150}
RunLens == {35, 71}

RECURSIVE SumSeq(_)
SumSeq(ws) == IF ws = <<>> THEN 0 ELSE Head(ws) + SumSeq(Tail(ws))

\* cleanText.split(/\s+/), line 874: an empty word can only be the first
\* or the last one, and the text has at most MaxText characters
Texts ==
  {ws \in (SeqsUpTo(WordLens, MaxWords) \ {<<>>}) \cup {[k \in 1..LongRun |-> w] : w \in RunLens} :
     /\ \A k \in 2..(Len(ws) - 1) : ws[k] # 0
     /\ SumSeq(ws) + Len(ws) - 1 <= MaxText}

\* lines 873-877
LayoutStart(ws) ==
  /\ layout.pc = "idle"
  /\ layout' = [NoLayout EXCEPT !.pc = "words", !.words = ws]
  /\ UNCHANGED <<svars, cvars, planned, decoded, reported, markup>>

\* lines 879-890, the body of the loop over the words
PlaceWord(cur, lines, w) ==
  IF cur.len + 1 + w <= maxLineLength
  THEN [lines |-> lines,
        cur |-> IF cur.len > 0 THEN [len |-> cur.len + 1 + w, chars |-> cur.chars + w]
                ELSE [len |-> w, chars |-> w]]
  ELSE IF cur.len > 0
  THEN [lines |-> Append(lines, cur), cur |-> [len |-> w, chars |-> w]]
  ELSE [lines |-> Append(lines, [len |-> Min(w, maxLineLength), chars |-> Min(w, maxLineLength)]),
        cur |-> [len |-> Max(w - maxLineLength, 0), chars |-> Max(w - maxLineLength, 0)]]

\* lines 878-891: one word of the loop
LayoutWord ==
  /\ layout.pc = "words"
  /\ layout.wi <= Len(layout.words)
  /\ LET placed == PlaceWord(layout.currentLine, layout.lines, layout.words[layout.wi])
     IN layout' = [layout EXCEPT !.lines = placed.lines,
                                 !.currentLine = placed.cur,
                                 !.wi = layout.wi + 1]
  /\ UNCHANGED <<svars, cvars, planned, decoded, reported, markup>>

\* lines 892-896: the last line is pushed, the first 40 lines are displayed
LayoutEnd ==
  /\ layout.pc = "words"
  /\ layout.wi > Len(layout.words)
  /\ LET lines == IF layout.currentLine.len > 0
                  THEN Append(layout.lines, layout.currentLine)
                  ELSE layout.lines
     IN layout' = [layout EXCEPT !.lines = lines,
                                 !.displayLines = SubSeq(lines, 1, Min(MaxLines, Len(lines))),
                                 !.pc = "done"]
  /\ UNCHANGED <<svars, cvars, planned, decoded, reported, markup>>

LayoutNext ==
  \/ \E ws \in Texts : LayoutStart(ws)
  \/ LayoutWord
  \/ LayoutEnd

LayoutSpec == Init /\ [][LayoutNext]_vars

\* ------------------------------------------------------------------------
\* PlanSpec: the compression settings of convert requests.  The body of a
\* request carries the tier, the target size in KB (0: none), the explicit
\* ratio in percent (convertToPDF sends compressionRatio.value / 100, line
\* 299) and files of totalBytes bytes in all.
\* ------------------------------------------------------------------------
PlanTiers == Tiers \cup {"other"}
PlanTargets == {0, 100, 1024}
PlanRatios == {10, 30, 50, 70, 100}
PlanTotals == {0, 11, 204800, 1024000, 4096000}

\* lines 1124 and 1141-1145: the settings come from the tier, the target
\* size and the total size; compressionRatio is read from the body and
\* not used
PlanRequest(compression, targetSizeKB, compressionRatio, totalBytes) ==
  /\ planned' = [called |-> TRUE,
                 compression |-> compression,
                 targetSizeKB |-> targetSizeKB,
                 compressionRatio |-> compressionRatio,
                 totalBytes |-> totalBytes,
                 settings |-> calculateCompressionSettings(compression, targetSizeKB, totalBytes)]
  /\ UNCHANGED <<svars, cvars, layout, decoded, reported, markup>>

PlanNext ==
  \E compression \in PlanTiers, targetSizeKB \in PlanTargets,
     compressionRatio \in PlanRatios, totalBytes \in PlanTotals :
       PlanRequest(compression, targetSizeKB, compressionRatio, totalBytes)

PlanSpec == Init /\ [][PlanNext]_vars

\* ------------------------------------------------------------------------
\* The size report of a successful conversion, lines 1135-1139 and
\* 1225-1245, run on its own over batches of descriptor sizes and sizes
\* of the written document.
\* ------------------------------------------------------------------------
\* the sizes the descriptors of a batch carry (fileInfo.size)
ReportFileSizes == {0, 11, 204800, 819200}

\* the size of the written document (outputStats.size); a serialized
\* document holds at least its header, catalog, page tree, one page and
\* cross-reference stream, so the smallest one is a few hundred bytes
OutBytes == {561, 1023, 204800, 1048576}

ReportBatches ==
  UNION {[1..n -> [size : ReportFileSizes]] : n \in 1..MaxBatch}

\* what a division of zero by zero yields
NotANumber == "NaN"

\* Math.round(bytes / 1024)
RoundKB(bytes) == (2 * bytes + 1024) \div 2048

\* the savings percentage with no lower bound on a finite quotient
compressionRatioOf_Unbounded(outputSizeKB, totalOriginalSize) ==
  IF totalOriginalSize = 0
  THEN IF outputSizeKB = 0 THEN NotANumber ELSE 0
  ELSE (200 * (totalOriginalSize - 1024 * outputSizeKB) + totalOriginalSize)
         \div (2 * totalOriginalSize)

\* Math.max(0, Math.round((1 - outputSizeKB / (totalOriginalSize / 1024)) * 100)):
\* a division of a positive size by zero is Infinity, which the lower bound
\* turns into 0; zero by zero is not a number, and stays so
compressionRatioOf(outputSizeKB, totalOriginalSize) ==
  IF totalOriginalSize = 0
  THEN IF outputSizeKB = 0 THEN NotANumber ELSE 0
  ELSE Max(0, (200 * (totalOriginalSize - 1024 * outputSizeKB) + totalOriginalSize)
                \div (2 * totalOriginalSize))

\* the body of the 200 response, lines 1237-1245
SizeReport(files, outputBytes) ==
  LET totalOriginalSize == SumSizes(files)
      outputSizeKB == RoundKB(outputBytes)
  IN [success |-> TRUE,
      originalSizeKB |-> RoundKB(totalOriginalSize),
      compressedSizeKB |-> outputSizeKB,
      compressionRatio |-> compressionRatioOf(outputSizeKB, totalOriginalSize)]

ReportRequest(files, outputBytes) ==
  /\ reported' = [called |-> TRUE,
                  files |-> files,
                  outputBytes |-> outputBytes,
                  resp |-> SizeReport(files, outputBytes)]
  /\ UNCHANGED <<svars, cvars, layout, planned, decoded, markup>>

ReportNext ==
  \E files \in ReportBatches, outputBytes \in OutBytes :
    ReportRequest(files, outputBytes)

ReportSpec == Init /\ [][ReportNext]_vars

\* ------------------------------------------------------------------------
\* detectAndConvertEncoding, lines 496-532, run on its own.  A buffer is
\* known by what its bytes are, a decoded text by what the acceptance test
\* of line 516 looks for in it.
\* ------------------------------------------------------------------------
Buffers == {"empty", "ascii", "hangul-utf8", "hangul-euckr", "binary"}

\* what jschardet.detect does: it throws, returns null, returns a guess
\* without an encoding, or returns a guess with a label
NoEncoding == "null"
DetLabels == {"UTF-8", "EUC-KR", "windows-1252", "ISO-8859-1", "Big5", "x-unknown"}
Detections == {"throws", "null-guess"} \cup {NoEncoding} \cup DetLabels

\* iconv.encodingExists: the labels the decoder knows
encodingExists(enc) ==
  enc \in {"UTF-8", "utf8", "EUC-KR", "euc-kr", "cp949", "windows-1252",
           "ISO-8859-1", "Big5"}

Charset(enc) ==
  CASE enc \in {"UTF-8", "utf8"} -> "utf8"
    [] enc \in {"EUC-KR", "euc-kr", "cp949"} -> "korean"
    [] OTHER -> "foreign"

\* iconv.decode(buffer, enc), and buffer.toString('utf8') for the utf8
\* charset: the text the bytes give when read in that charset
Decode(buffer, enc) ==
  CASE buffer = "empty" -> "empty"
    [] buffer = "ascii" -> "alnum"
    [] buffer = "hangul-utf8" ->
         IF Charset(enc) = "utf8" THEN "hangul" ELSE "garbled"
    [] buffer = "hangul-euckr" ->
         IF Charset(enc) = "korean" THEN "hangul" ELSE "garbled"
    [] OTHER -> "garbled"

Texts18 == {"empty", "alnum", "hangul", "garbled"}

\* line 516: the text is not empty and holds a Korean syllable or an
\* ASCII letter or digit
LooksReasonable(text) == text \in {"alnum", "hangul"}

\* lines 502-508: the list of candidates for a guessed encoding
encodingsToTry(detected) ==
  LET encoding == IF detected \in {"windows-1252", "ISO-8859-1"}
                  THEN "euc-kr" ELSE detected
  IN <<encoding, "utf8", "euc-kr", "cp949", "iso-2022-kr">>

\* one round of the loop, lines 511-524: the candidate at position k is
\* accepted when its try block does not throw, the label is known and the
\* decoded text looks reasonable
AcceptedAt(buffer, encs, throwing, k) ==
  /\ k \notin throwing
  /\ encs[k] # NoEncoding
  /\ encodingExists(encs[k])
  /\ LooksReasonable(Decode(buffer, encs[k]))

\* an outer catch that lets the error go on to the caller
Caught_Rethrown(buffer) ==
  [kind |-> "throw", text |-> "none", by |-> "catch"]

\* the outer catch, lines 528-531
Caught(buffer) ==
  [kind |-> "return", text |-> Decode(buffer, "utf8"), by |-> "catch"]

detectAndConvertEncoding(buffer, detection, throwing) ==
  IF detection \in {"throws", "null-guess"}
  THEN Caught(buffer)
  ELSE LET encs == encodingsToTry(detection)
           hits == {k \in 1..Len(encs) : AcceptedAt(buffer, encs, throwing, k)}
       IN IF hits # {}
          THEN LET k == CHOOSE h \in hits : \A g \in hits : h <= g
               IN [kind |-> "return", text |-> Decode(buffer, encs[k]), by |-> encs[k]]
          ELSE [kind |-> "return", text |-> Decode(buffer, "utf8"), by |-> "fallback"]

\* the rounds of the loop of lines 510-524 that run: all up to the first
\* accepted candidate, all five when none is accepted
RoundsRun(buffer, encs, throwing) ==
  {k \in 1..Len(encs) : \A g \in 1..(k - 1) : ~AcceptedAt(buffer, encs, throwing, g)}

\* the rounds in which a decode is attempted, line 513: the candidate is
\* set and the decoder knows it
DecodeAttempts(buffer, encs, throwing) ==
  {k \in RoundsRun(buffer, encs, throwing) :
     encs[k] # NoEncoding /\ encodingExists(encs[k])}

DecodeRequest(buffer, detection, throwing) ==
  /\ ~decoded.called
  /\ decoded' = [called |-> TRUE,
                 buffer |-> buffer,
                 detection |-> detection,
                 throwing |-> throwing,
                 result |-> detectAndConvertEncoding(buffer, detection, throwing)]
  /\ UNCHANGED <<svars, cvars, layout, planned, reported, markup>>

DecodeNext ==
  \E buffer \in Buffers, detection \in Detections, throwing \in SUBSET (1..5) :
    DecodeRequest(buffer, detection, throwing)

DecodeSpec == Init /\ [][DecodeNext]_vars

\* ------------------------------------------------------------------------
\* The text createTextImage writes into its SVG, lines 863-897 and 912-915,
\* character by character.  A text is a sequence of runs: a run of n plain
\* letters, one raw special character, an entity (the escape of a special
\* character, n characters long) or a fragment (a part of an entity).
\* ------------------------------------------------------------------------
SpecialChars == {"&", "<", ">", "\"", "'"}

\* the length of the replacement of lines 866-870
EntityLen(ch) ==
  CASE ch = "&" -> 5
    [] ch \in {"<", ">"} -> 4
    [] ch = "\"" -> 6
    [] OTHER -> 5

Plain(n) == [kind |-> "plain", ch |-> "a", n |-> n]
Raw(ch) == [kind |-> "raw", ch |-> ch, n |-> 1]

RECURSIVE LenOf(_)
LenOf(runs) == IF runs = <<>> THEN 0 ELSE Head(runs).n + LenOf(Tail(runs))

\* the first k characters of a run, k less than its length
CutHead(u, k) ==
  IF u.kind = "plain" THEN Plain(k) ELSE [kind |-> "fragment", ch |-> u.ch, n |-> k]

\* the characters of a run after its first k
CutTail(u, k) ==
  IF u.kind = "plain" THEN Plain(u.n - k)
  ELSE [kind |-> "fragment", ch |-> u.ch, n |-> u.n - k]

\* s.substring(0, k)
RECURSIVE Take(_, _)
Take(runs, k) ==
  IF k = 0 \/ runs = <<>> THEN <<>>
  ELSE LET u == Head(runs)
       IN IF u.n = 0 THEN Take(Tail(runs), k)
          ELSE IF u.n <= k THEN <<u>> \o Take(Tail(runs), k - u.n)
          ELSE <<CutHead(u, k)>>

\* s.substring(k)
RECURSIVE Drop(_, _)
Drop(runs, k) ==
  IF runs = <<>> THEN <<>>
  ELSE LET u == Head(runs)
       IN IF u.n = 0 THEN Drop(Tail(runs), k)
          ELSE IF k = 0 THEN runs
          ELSE IF u.n <= k THEN Drop(Tail(runs), k - u.n)
          ELSE <<CutTail(u, k)>> \o Tail(runs)

\* lines 866-870: every special character is replaced by its entity
RECURSIVE Escape(_)
Escape(runs) ==
  IF runs = <<>> THEN <<>>
  ELSE LET u == Head(runs)
       IN <<IF u.kind = "raw" THEN [kind |-> "entity", ch |-> u.ch, n |-> EntityLen(u.ch)]
            ELSE u>> \o Escape(Tail(runs))

\* lines 864-870: the text is cut to 3000 characters, then escaped
cleanText(text) == Escape(Take(text, MaxText))

\* lines 878-894 for a text of one word: the word joins the empty current
\* line when it fits with the blank the test puts before it, else its first
\* 70 characters are pushed and the rest is the current line, pushed at
\* the end when it is not empty
LinesOfWord(word) ==
  IF LenOf(word) = 0 THEN <<>>
  ELSE IF 1 + LenOf(word) <= maxLineLength THEN <<word>>
  ELSE IF LenOf(word) > maxLineLength
       THEN <<Take(word, maxLineLength), Drop(word, maxLineLength)>>
       ELSE <<Take(word, maxLineLength)>>

\* the texts of one word: letters, one special character, letters
PrefixLens == {0, 64, 65, 66, 67, 68, 69, 70, 2999, 3000}
SuffixLens == {0, 1, 5}
MarkupTexts ==
  {<<Plain(p), Raw(ch), Plain(q)>> : p \in PrefixLens, ch \in SpecialChars, q \in SuffixLens}

MarkupRequest(text) ==
  /\ ~markup.called
  /\ markup' = [called |-> TRUE,
                text |-> text,
                lines |-> LinesOfWord(cleanText(text))]
  /\ UNCHANGED <<svars, cvars, layout, planned, decoded, reported>>

MarkupNext == \E text \in MarkupTexts : MarkupRequest(text)

MarkupSpec == Init /\ [][MarkupNext]_vars

\* ------------------------------------------------------------------------
\* Properties
\* ------------------------------------------------------------------------
\* the per-file loop of request r has ended
AfterLoop(r) ==
  \/ req[r].pc \in {"save", "write", "cleanup", "unlink"}
  \/ req[r].pc = "done" /\ req[r].resp.status = 200

\* the pages of a page list that come from batch entry k
PagesOf(pages, k) == {n \in 1..Len(pages) : pages[n].src = k}

InOrder(pages) ==
  \A a, b \in 1..Len(pages) : a < b => pages[a].src <= pages[b].src

\* C1: each file that is present at conversion time contributes exactly one
\* page to the output, whichever of its steps fail, and each missing file
\* none (a native PDF contributes its own pages, at least one).
C1_OnePagePerPresentFile ==
  \A r \in Req :
    AfterLoop(r) =>
      \A k \in 1..Len(req[r].files) :
        LET n == Cardinality(PagesOf(req[r].pages, k))
        IN IF k \in req[r].skipped THEN n = 0
           ELSE IF ExtName(req[r].files[k].filename) = ".pdf" THEN n >= 1
           ELSE n = 1

\* C2: the pages of the document being assembled, and of every output PDF
\* written, are in the order of the input files: a page of file i, error
\* banner included, precedes every page of a later file j.
C2_PageOrder ==
  /\ \A r \in Req : InOrder(req[r].pages)
  /\ \A t \in Times : InOrder(outputs[t].pages)

\* a request answered with success whose output has an error banner page
\* followed by a page of a later file
C2_Witness ==
  \E r \in Req :
    /\ req[r].pc = "done"
    /\ req[r].resp.status = 200
    /\ \E a, b \in 1..Len(outputs[req[r].outName].pages) :
         LET pages == outputs[req[r].outName].pages
         IN a < b /\ pages[a].kind = "banner" /\ pages[a].src < pages[b].src

\* C3: an exception raised while one file is processed becomes exactly one
\* error banner page of that file and never the batch-level failure
\* response: a request is answered 500 only after its loop has gone through
\* all its files.
C3_FileErrorContained ==
  \A r \in Req :
    /\ \A k \in 1..Len(req[r].files) :
         Cardinality({n \in PagesOf(req[r].pages, k) : req[r].pages[n].kind = "banner"}) <= 1
    /\ req[r].resp.status = 500 => req[r].i > Len(req[r].files)

\* C4: a file missing from storage at conversion time is skipped: the loop
\* step that meets it adds no page, not even an error page, answers
\* nothing and goes on with the next file; skipping is no error (a request
\* in which no library call failed and whose clean-up ran through is
\* answered with success); and the other files are processed as usual (each
\* gets its page when no library call fails).
C4_SkipStep ==
  \A r \in Req :
    LET q == req[r]
    IN (/\ q.pc = "loop"
        /\ q.i <= Len(q.files)
        /\ appUploadPath(q.files[q.i].filename) \notin disk
        /\ req'[r] # q)
         => /\ req'[r].pages = q.pages
            /\ req'[r].i = q.i + 1
            /\ req'[r].pc = "loop"
            /\ req'[r].resp = q.resp

C4_SkipState ==
  \A r \in Req :
    LET q == req[r]
    IN /\ \A k \in q.skipped : PagesOf(q.pages, k) = {}
       /\ (q.pc = "done" /\ Len(q.files) > 0 /\ faults = 0 /\ q.j > Len(q.files))
            => q.resp.status = 200
       /\ (AfterLoop(r) /\ faults = 0)
            => \A k \in (1..Len(q.files)) \ q.skipped : PagesOf(q.pages, k) # {}

KeptFiles(files, skipped) ==
  LET idx == (1..Len(files)) \ skipped
  IN [n \in 1..Cardinality(idx) |->
        files[CHOOSE k \in idx : Cardinality({m \in idx : m <= k}) = n]]

C5_UploadedFileFound ==
  [][\A r \in Req :
       (req[r].compression = "medium" /\ req'[r].skipped # req[r].skipped)
         => uploadPath(req[r].files[req[r].i].filename) \notin disk]_vars

\* C6: when a convert request is answered, with the success response or
\* with the failure response after its assembly phase, none of the source
\* files of its batch that the loop found remains in upload storage.
C6_SourcesDeleted ==
  [][\A r \in Req :
       (req[r].pc # "done" /\ req'[r].pc = "done" /\ req'[r].resp.status \in {200, 500}
          /\ req[r].i > Len(req[r].files))
         => \A k \in (1..Len(req[r].files)) \ req[r].skipped :
              uploadPath(req[r].files[k].filename) \notin disk']_vars

\* C7: a request answered with the top-level failure response leaves no
\* output PDF of its own in the output directory.
C7_NoArtifactOnFailure ==
  \A r \in Req :
    (req[r].pc = "done" /\ req[r].resp.status = 500)
      => \A t \in Times : outputs[t].by # r

\* C8: concurrent convert requests use independent resources: the temp
\* raster a request has rendered stays in place, written by that request,
\* until the request has read and unlinked it, and every raster page of a
\* request was rendered by that request.
C8_Isolation ==
  \A r \in Req :
    /\ req[r].pc \in {"reencode", "embed"} => tempFiles[<<req[r].tempImagePath, "jpg">>].by = r
    /\ \A n \in 1..Len(req[r].pages) : req[r].pages[n].by \in {0, r}

\* C9: a delete request is answered without an error, also when the file
\* has already been removed or was never stored.
C9_DeleteIdempotent ==
  delResp.status # 0 => delResp.success

\* C10: the batch convertToPDF hands to the convert request has at most 20
\* files, each of at most 50 MiB.
C10_BatchWithinLimits ==
  /\ Len(sent) <= MaxFiles
  /\ \A k \in 1..Len(sent) : sent[k].size <= MaxFileSize

\* C11: an admission error is rejected before any processing starts.  An
\* upload request is sent only for a batch of at most 20 files, each of
\* at most 50 MiB; a handleFiles call that sends none, and a convertToPDF
\* call on an empty list, leave uploadedFiles and the requests in flight
\* as they were; a convert request without files is answered 400 with no
\* document, temp directory or output created and storage unchanged.
C11_Step ==
  /\ Len(uploading') > Len(uploading)
       => LET files == uploading'[Len(uploading')]
          IN /\ Len(files) <= MaxFiles
             /\ \A k \in 1..Len(files) : files[k] <= MaxFileSize
  /\ (calls' # calls /\ uploading' = uploading)
       => /\ alert' \in {"tooMany", "oversize"}
          /\ uploadedFiles' = uploadedFiles
          /\ shown' = shown
  /\ (alert' = "noFiles" /\ alert # "noFiles")
       => /\ Len(uploadedFiles) = 0
          /\ sent' = sent
          /\ uploadedFiles' = uploadedFiles
  /\ \A r \in Req :
       (req[r].pc = "idle" /\ req'[r].pc # "idle" /\ req'[r].files = <<>>)
         => /\ req'[r].pc = "done"
            /\ req'[r].resp.status = 400
            /\ outputs' = outputs
            /\ tempDirExists' = tempDirExists
            /\ tempFiles' = tempFiles
            /\ disk' = disk

C11_AdmissionRejected == [][C11_Step]_vars

\* a batch with an oversize file was rejected while files were listed, and
\* an empty convert request was answered
C11_Witness ==
  /\ alert = "oversize"
  /\ Len(uploadedFiles) > 0
  /\ uploading = <<>>
  /\ req[1].resp.status = 400

\* C12: a native PDF with n pages that was loaded gets exactly its n
\* source pages in the output, uncompressed copies in their original
\* order, contiguous at the file's position in the batch.
C12_PdfPagesCopied ==
  \A r \in Req :
    LET q == req[r]
    IN \A k \in 1..Len(q.files) :
         (/\ k < q.i
          /\ k \notin q.skipped
          /\ ExtName(q.files[k].filename) = ".pdf"
          /\ \A m \in PagesOf(q.pages, k) : q.pages[m].kind = "pdf")
           => LET n == PdfPages(q.files[k].filename)
                  first == Cardinality({m \in 1..Len(q.pages) : q.pages[m].src < k})
              IN /\ PagesOf(q.pages, k) = (first + 1)..(first + n)
                 /\ \A j \in 1..n :
                      q.pages[first + j] = [src |-> k, kind |-> "pdf", q |-> 0, by |-> 0, no |-> j]

\* a request answered with success whose output has the three pages of a
\* PDF after the page of an earlier file
C12_Witness ==
  \E r \in Req :
    /\ req[r].pc = "done"
    /\ req[r].resp.status = 200
    /\ Len(req[r].files) = 2
    /\ LET pages == outputs[req[r].outName].pages
       IN /\ Len(pages) = 4
          /\ pages[1].kind # "pdf"
          /\ \A j \in 1..3 : pages[1 + j].kind = "pdf" /\ pages[1 + j].no = j

\* C13: the layout displays at most 40 lines, every line has at most 70
\* characters, and a text whose lines fit the 40-line budget is displayed
\* whole: the displayed lines hold every character of its words.
C13_LayoutBounds ==
  layout.pc = "done"
    => /\ Len(layout.displayLines) <= MaxLines
       /\ \A n \in 1..Len(layout.displayLines) : layout.displayLines[n].len <= maxLineLength
       /\ Len(layout.lines) <= MaxLines
            => SumSeq([n \in 1..Len(layout.displayLines) |-> layout.displayLines[n].chars])
                 = SumSeq(layout.words)

\* C14: the quality of the settings is an integer from 10 to 100, and for
\* the same target size and total size the tier low gets at least the
\* quality of medium, and medium at least the quality of high.
C14_TiersMonotonic ==
  planned.called
    => LET quality(tier) ==
             calculateCompressionSettings(tier, planned.targetSizeKB, planned.totalBytes).quality
       IN /\ planned.settings.quality \in 10..100
          /\ quality("low") >= quality("medium")
          /\ quality("medium") >= quality("high")

\* the settings of a fixed tier were computed for a request with a target
\* size
C14_Witness ==
  /\ planned.called
  /\ planned.compression = "high"
  /\ planned.targetSizeKB = 100
  /\ planned.settings.quality = 60

\* C15: for the custom tier the ratio of the settings is
\* min(1, target size / total size) when the request has a target size and
\* the explicit ratio of the request otherwise, and lies in (0, 1].
C15_CustomRatio ==
  (planned.called /\ planned.compression = "custom")
    => LET target == planned.targetSizeKB * 1024
           expected ==
             IF planned.targetSizeKB # 0
             THEN IF target >= planned.totalBytes
                  THEN [num |-> 1, den |-> 1]
                  ELSE [num |-> target, den |-> planned.totalBytes]
             ELSE [num |-> planned.compressionRatio, den |-> 100]
           got == planned.settings
       IN /\ got.num * expected.den = expected.num * got.den
          /\ got.num > 0
          /\ got.num <= got.den

\* C16: for the custom tier the quality is the one the threshold table
\* gives for the ratio, the ratio being target size / total size when the
\* request has a target size and its explicit ratio otherwise.
C16_CustomQuality ==
  (planned.called /\ planned.compression = "custom" /\ planned.totalBytes # 0)
    => planned.settings.quality =
         IF planned.targetSizeKB # 0
         THEN QualityOf(planned.targetSizeKB * 1024, planned.totalBytes)
         ELSE QualityOf(planned.compressionRatio, 100)

\* C17: the savings percentage of a successful convert response is a
\* number greater than or equal to 0 for every batch, also when the sizes
\* of the batch add up to 0 and when the output is larger than the input.
C17_SavingsNonNegative ==
  reported.called => reported.resp.compressionRatio \in Nat

C17_Witness ==
  /\ reported.called
  /\ SumSizes(reported.files) = 0
  /\ reported.resp.compressionRatio = 0

\* C18: detectAndConvertEncoding never raises: for every buffer, the empty
\* one included, and whatever the detector and the candidate decodes do,
\* it returns a string, which is the UTF-8 decode of the buffer when no
\* candidate is accepted.
C18_NeverRaises ==
  decoded.called =>
    /\ decoded.result.kind = "return"
    /\ decoded.result.text \in Texts18
    /\ (\/ decoded.detection \in {"throws", "null-guess"}
        \/ \A k \in 1..5 :
             ~AcceptedAt(decoded.buffer, encodingsToTry(decoded.detection),
                         decoded.throwing, k))
         => decoded.result.text = Decode(decoded.buffer, "utf8")

C18_Witness ==
  /\ decoded.called
  /\ decoded.buffer = "empty"
  /\ decoded.detection = "null-guess"
  /\ decoded.result.kind = "return"
  /\ decoded.result.text = "empty"

\* C19: convertToImage never propagates an extraction or rendering failure:
\* whatever fails inside it, the call returns without throwing and leaves a
\* page image for the file (the content, or the diagnostic page), so the
\* loop goes on to embed that image.
C19_RenderAlwaysYieldsPage ==
  [][\A r \in Req :
       (req[r].pc = "render" /\ req'[r] # req[r])
         => /\ req'[r].pc = "reencode"
            /\ req'[r].rendered \in {"content", "simple", "error", "minimal"}
            /\ tempFiles'[<<req[r].tempImagePath, "jpg">>] # NoFile]_vars

\* C20: the temporary rasters written for one file (the intermediate PNG
\* and the temp JPEG) are deleted before the loop moves on to the next
\* file, when embedding succeeds and when a step for the file fails: a
\* request that is at the head of its loop, or past the loop, has no
\* raster of its own in the temp directory.
C20_TempRastersReleased ==
  \A r \in Req :
    req[r].pc \in {"loop", "save", "write", "cleanup", "unlink"}
      => \A n \in TempNames : tempFiles[n].by # r

\* C21: every line createTextImage writes into the SVG is fully escaped:
\* it holds no raw '&', '<' or '>' (nor a raw quote), and no entity cut in
\* two by the 3000-character truncation or by the 70-character split.
C21_LinesEscaped ==
  markup.called =>
    \A k \in 1..Len(markup.lines) :
      \A j \in 1..Len(markup.lines[k]) :
        markup.lines[k][j].kind \in {"plain", "entity"}

\* C22: no operation is retried: the chain of candidate encodings moves
\* through distinct alternatives, each attempted at most once, and stops
\* at the first one accepted.
C22_NoRetry ==
  decoded.called /\ decoded.detection \notin {"throws", "null-guess"} =>
    LET encs == encodingsToTry(decoded.detection)
        tried == DecodeAttempts(decoded.buffer, encs, decoded.throwing)
    IN /\ \A a, b \in tried : a # b => encs[a] # encs[b]
       /\ \A a \in tried :
            AcceptedAt(decoded.buffer, encs, decoded.throwing, a)
              => \A b \in tried : b <= a

\* C23: under every interleaving of removeFile calls, two calls started
\* before the first one's delete request has completed included, the call
\* that completes removes from uploadedFiles the file whose remove button
\* was clicked, no other file, and that file once only.
C23_Step ==
  Len(removing') < Len(removing) =>
    \E k \in 1..Len(removing) :
      /\ removing' = RemoveAt(removing, k)
      /\ uploadedFiles' =
           SelectSeq(uploadedFiles, LAMBDA f : f.filename # removing[k].file.filename)

C23_RemovesClickedFile == [][C23_Step]_vars

\* C24: after every completed client operation (handleFiles, removeFile,
\* resetApp, successful or failed) the convert button is disabled exactly
\* when uploadedFiles is empty and the displayed list shows exactly the
\* files of uploadedFiles: an operation that starts with the two in
\* agreement and leaves no request in flight ends with them in agreement.
C24_InAgreement ==
  /\ convertDisabled = (Len(uploadedFiles) = 0)
  /\ shown = [k \in 1..Len(uploadedFiles) |-> uploadedFiles[k].filename]

C24_Step ==
  (C24_InAgreement /\ cvars' # cvars /\ uploading' = <<>> /\ removing' = <<>>)
    => C24_InAgreement'

C24_ButtonAndListFollowFiles == [][C24_Step]_vars

====
